---------------------------- MODULE Spec2Model ----------------------------
(***************************************************************************)
(* Model of the daily-market-data ingestion handler get_stock_day_all      *)
(* (src/src/api/handlers/health.rs) and of the error conversions it uses   *)
(* (src/src/error.rs), of the upload handler upload_image                  *)
(* (src/src/api/handlers/upload.rs) and of the startup function            *)
(* setup_app_state (src/src/bootstrap.rs).                                 *)
(*                                                                         *)
(* A text is a sequence of one-character strings, so that the parsers can  *)
(* be modelled character by character.  An i64 is a sign and a magnitude   *)
(* of four 16-bit limbs (least significant first); an i32 is an integer.   *)
(***************************************************************************)
EXTENDS Integers, Sequences, FiniteSets, TLC

(***************************************************************************)
(* Bounds of the model.                                                    *)
(***************************************************************************)
\* number of rows in the payloads of the row-parser specification
MaxRows == 2

(***************************************************************************)
(* Characters and texts.                                                   *)
(***************************************************************************)
DigitChars ==
    ("0" :> 0) @@ ("1" :> 1) @@ ("2" :> 2) @@ ("3" :> 3) @@ ("4" :> 4)
        @@ ("5" :> 5) @@ ("6" :> 6) @@ ("7" :> 7) @@ ("8" :> 8) @@ ("9" :> 9)

IsDigit(c) == c \in DOMAIN DigitChars

DigitVal(c) == DigitChars[c]

Lower(c) ==
    CASE c = "N" -> "n" [] c = "A" -> "a" [] c = "I" -> "i" [] c = "F" -> "f"
      [] c = "T" -> "t" [] c = "Y" -> "y" [] OTHER -> c

\* str::replace(",", ""): every comma is removed, the other characters keep
\* their order.
StripCommas(s) == SelectSeq(s, LAMBDA c : c # ",")

None == [some |-> FALSE]

Some(v) == [some |-> TRUE, val |-> v]

(***************************************************************************)
(* i64 arithmetic on 16-bit limbs, as far as the integer parser needs it.  *)
(***************************************************************************)
Limb == 65536

HalfLimb == 32768

ZeroMag == <<0, 0, 0, 0>>

\* mag * 10 + d, with the carry out of the top limb
MulAdd10(mag, d) ==
    LET t1 == mag[1] * 10 + d
        t2 == mag[2] * 10 + (t1 \div Limb)
        t3 == mag[3] * 10 + (t2 \div Limb)
        t4 == mag[4] * 10 + (t3 \div Limb)
    IN  [mag |-> <<t1 % Limb, t2 % Limb, t3 % Limb, t4 % Limb>>,
         carry |-> t4 \div Limb]

\* magnitude <= i64::MAX (2^63 - 1)
FitsPos(mag) == mag[4] < HalfLimb

\* magnitude <= 2^63, the magnitude of i64::MIN
FitsNeg(mag) ==
    \/ mag[4] < HalfLimb
    \/ mag[4] = HalfLimb /\ mag[1] = 0 /\ mag[2] = 0 /\ mag[3] = 0

\* The digit loop of i64::from_str: checked_mul(10), then checked_add (or
\* checked_sub for a negative number) of the digit; any character that is no
\* digit and any overflow end the parse with an error.
RECURSIVE AccumDigits(_, _, _, _)
AccumDigits(s, i, neg, mag) ==
    IF i > Len(s) THEN Some(mag)
    ELSE IF ~IsDigit(s[i]) THEN None
    ELSE LET r == MulAdd10(mag, DigitVal(s[i]))
             ok == r.carry = 0
                   /\ (IF neg THEN FitsNeg(r.mag) ELSE FitsPos(r.mag))
         IN  IF ok THEN AccumDigits(s, i + 1, neg, r.mag) ELSE None

\* str::parse::<i64>(): an optional sign, then at least one digit.
ParseI64(s) ==
    IF Len(s) = 0 THEN None
    ELSE IF Len(s) = 1 /\ s[1] \in {"+", "-"} THEN None
    ELSE LET neg == s[1] = "-"
             body == IF s[1] \in {"+", "-"} THEN Tail(s) ELSE s
             r == AccumDigits(body, 1, neg, ZeroMag)
         IN  IF r.some
             THEN Some([neg |-> neg /\ r.val # ZeroMag, mag |-> r.val])
             ELSE None

\* let parse_i64 = |s: &str| s.replace(",", "").parse::<i64>().ok();
parse_i64(s) == ParseI64(StripCommas(s))

I64Zero == [neg |-> FALSE, mag |-> ZeroMag]

MinI32 == (HalfLimb - Limb) * Limb

\* `as i32` on an i64: the low 32 bits of the two's complement value, read
\* as a signed 32-bit integer.
AsI32(v) ==
    LET lo == IF v.mag[2] < HalfLimb
              THEN v.mag[2] * Limb + v.mag[1]
              ELSE (v.mag[2] - Limb) * Limb + v.mag[1]
    IN  IF ~v.neg THEN lo
        ELSE IF lo = MinI32 THEN MinI32
        ELSE 0 - lo

\* Option::unwrap_or
UnwrapOr(o, d) == IF o.some THEN o.val ELSE d

(***************************************************************************)
(* f64 parsing (str::parse::<f64>()): an optional sign, then either a      *)
(* decimal number (digits, optional point, digits, at least one digit in   *)
(* all, optional exponent e/E with optional sign and at least one digit)   *)
(* or one of nan, inf, infinity in any case.  A finite value is kept as    *)
(* its significant digits and a power of ten.                              *)
(***************************************************************************)
RECURSIVE DigitRun(_, _)
\* the length of the run of digits of s that starts at position i
DigitRun(s, i) ==
    IF i <= Len(s) /\ IsDigit(s[i]) THEN 1 + DigitRun(s, i + 1) ELSE 0

RECURSIVE SmallNat(_, _)
\* the value of a short run of digits (an exponent), saturating
SmallNat(s, acc) ==
    IF Len(s) = 0 THEN acc
    ELSE SmallNat(Tail(s), IF acc > 9999 THEN acc ELSE acc * 10 + DigitVal(Head(s)))

RECURSIVE DropLeadingZeros(_)
DropLeadingZeros(s) ==
    IF Len(s) > 0 /\ Head(s) = "0" THEN DropLeadingZeros(Tail(s)) ELSE s

RECURSIVE TrailingZeros(_)
TrailingZeros(s) ==
    IF Len(s) > 0 /\ s[Len(s)] = "0"
    THEN 1 + TrailingZeros(SubSeq(s, 1, Len(s) - 1))
    ELSE 0

Finite(neg, digits, exp) ==
    LET d == DropLeadingZeros(digits)
        z == TrailingZeros(d)
    IN  IF Len(d) = 0
        THEN [cls |-> "finite", neg |-> neg, digits |-> <<>>, exp |-> 0]
        ELSE [cls |-> "finite", neg |-> neg,
              digits |-> SubSeq(d, 1, Len(d) - z), exp |-> exp + z]

ParseDecimal(neg, s) ==
    LET n1 == DigitRun(s, 1)
        hasPoint == n1 < Len(s) /\ s[n1 + 1] = "."
        fracAt == n1 + 2
        n2 == IF hasPoint THEN DigitRun(s, fracAt) ELSE 0
        rest == IF hasPoint THEN fracAt + n2 ELSE n1 + 1
        mant == SubSeq(s, 1, n1) \o (IF hasPoint THEN SubSeq(s, fracAt, fracAt + n2 - 1) ELSE <<>>)
    IN  IF n1 + n2 = 0 THEN None
        ELSE IF rest > Len(s) THEN Some(Finite(neg, mant, 0 - n2))
        ELSE IF s[rest] \notin {"e", "E"} THEN None
        ELSE LET signed == rest < Len(s) /\ s[rest + 1] \in {"+", "-"}
                 eneg == signed /\ s[rest + 1] = "-"
                 eAt == IF signed THEN rest + 2 ELSE rest + 1
                 n3 == DigitRun(s, eAt)
                 e == SmallNat(SubSeq(s, eAt, eAt + n3 - 1), 0)
             IN  IF n3 = 0 \/ eAt + n3 <= Len(s) THEN None
                 ELSE Some(Finite(neg, mant, (IF eneg THEN 0 - e ELSE e) - n2))

ParseSpecial(neg, s) ==
    LET low == [i \in 1..Len(s) |-> Lower(s[i])]
    IN  IF low = <<"n", "a", "n">> THEN Some([cls |-> "nan"])
        ELSE IF low \in {<<"i", "n", "f">>, <<"i", "n", "f", "i", "n", "i", "t", "y">>}
        THEN Some([cls |-> "inf", neg |-> neg])
        ELSE None

ParseF64(s) ==
    IF Len(s) = 0 THEN None
    ELSE LET signed == s[1] \in {"+", "-"}
             neg == s[1] = "-"
             body == IF signed THEN Tail(s) ELSE s
             dec == ParseDecimal(neg, body)
         IN  IF dec.some THEN dec ELSE ParseSpecial(neg, body)

\* let parse_f64 = |s: &str| s.replace(",", "").parse::<f64>().ok();
parse_f64(s) == ParseF64(StripCommas(s))

(***************************************************************************)
(* NaiveDate::parse_from_str(text, "%Y%m%d").  Each numeric item takes the *)
(* digits it finds up to its width (%Y four, unless a sign precedes it;    *)
(* %m and %d two) and needs at least one; the whole text must be consumed  *)
(* and the fields must name a day of the calendar.                         *)
(***************************************************************************)
RECURSIVE YearNat(_, _)
YearNat(s, acc) ==
    IF Len(s) = 0 THEN acc
    ELSE YearNat(Tail(s), IF acc > 262143 THEN acc ELSE acc * 10 + DigitVal(Head(s)))

Min(a, b) == IF a < b THEN a ELSE b

IsLeap(y) == (y % 4 = 0 /\ y % 100 # 0) \/ y % 400 = 0

DaysInMonth(y, m) ==
    IF m = 2 THEN (IF IsLeap(y) THEN 29 ELSE 28)
    ELSE IF m \in {4, 6, 9, 11} THEN 30 ELSE 31

parse_from_str(s) ==
    LET signed == Len(s) > 0 /\ s[1] \in {"+", "-"}
        yAt == IF signed THEN 2 ELSE 1
        yRun == DigitRun(s, yAt)
        yLen == IF signed THEN yRun ELSE Min(yRun, 4)
        yAbs == YearNat(SubSeq(s, yAt, yAt + yLen - 1), 0)
        y == IF signed /\ s[1] = "-" THEN 0 - yAbs ELSE yAbs
        mAt == yAt + yLen
        mLen == Min(DigitRun(s, mAt), 2)
        m == SmallNat(SubSeq(s, mAt, mAt + mLen - 1), 0)
        dAt == mAt + mLen
        dLen == Min(DigitRun(s, dAt), 2)
        d == SmallNat(SubSeq(s, dAt, dAt + dLen - 1), 0)
    IN  IF yLen = 0 \/ mLen = 0 \/ dLen = 0 THEN None
        ELSE IF dAt + dLen <= Len(s) THEN None
        ELSE IF yAbs > 262142 \/ m \notin 1..12 THEN None
        ELSE IF d \notin 1..DaysInMonth(y, m) THEN None
        ELSE Some([year |-> y, month |-> m, day |-> d])

(***************************************************************************)
(* The eleven column vectors of the handler and one pass of its loop.      *)
(***************************************************************************)
EmptyCols ==
    [trade_dates |-> <<>>, stock_codes |-> <<>>, stock_names |-> <<>>,
     trade_volumes |-> <<>>, trade_amounts |-> <<>>, open_prices |-> <<>>,
     high_prices |-> <<>>, low_prices |-> <<>>, close_prices |-> <<>>,
     price_changes |-> <<>>, transaction_counts |-> <<>>]

\* row[k] of the source (indices from 0)
Field(row, k) == row[k + 1]

\* the loop body with a row dropped when its transaction count does not parse
LoopBodyNoCountDefault(c, row, trade_date) ==
    IF Len(row) < 10 THEN c
    ELSE LET trade_volume == parse_i64(Field(row, 2))
             trade_amount == parse_i64(Field(row, 3))
             open_price == parse_f64(Field(row, 4))
             high_price == parse_f64(Field(row, 5))
             low_price == parse_f64(Field(row, 6))
             close_price == parse_f64(Field(row, 7))
             price_change == parse_f64(Field(row, 8))
         IN  IF trade_volume.some /\ trade_amount.some /\ open_price.some /\ high_price.some
                /\ low_price.some /\ close_price.some /\ price_change.some /\ parse_i64(Field(row, 9)).some
             THEN LET transaction_count ==
                          AsI32(UnwrapOr(parse_i64(Field(row, 9)), I64Zero))
                  IN  [trade_dates |-> Append(c.trade_dates, trade_date),
                       stock_codes |-> Append(c.stock_codes, Field(row, 0)),
                       stock_names |-> Append(c.stock_names, Field(row, 1)),
                       trade_volumes |-> Append(c.trade_volumes, trade_volume.val),
                       trade_amounts |-> Append(c.trade_amounts, trade_amount.val),
                       open_prices |-> Append(c.open_prices, open_price.val),
                       high_prices |-> Append(c.high_prices, high_price.val),
                       low_prices |-> Append(c.low_prices, low_price.val),
                       close_prices |-> Append(c.close_prices, close_price.val),
                       price_changes |-> Append(c.price_changes, price_change.val),
                       transaction_counts |->
                           Append(c.transaction_counts, transaction_count)]
             ELSE c

\* the loop body without the check of the highest price
LoopBodyHighUnchecked(c, row, trade_date) ==
    IF Len(row) < 10 THEN c
    ELSE LET trade_volume == parse_i64(Field(row, 2))
             trade_amount == parse_i64(Field(row, 3))
             open_price == parse_f64(Field(row, 4))
             high_price == parse_f64(Field(row, 5))
             low_price == parse_f64(Field(row, 6))
             close_price == parse_f64(Field(row, 7))
             price_change == parse_f64(Field(row, 8))
         IN  IF trade_volume.some /\ trade_amount.some /\ open_price.some /\ low_price.some
                /\ close_price.some /\ price_change.some
             THEN LET transaction_count ==
                          AsI32(UnwrapOr(parse_i64(Field(row, 9)), I64Zero))
                  IN  [trade_dates |-> Append(c.trade_dates, trade_date),
                       stock_codes |-> Append(c.stock_codes, Field(row, 0)),
                       stock_names |-> Append(c.stock_names, Field(row, 1)),
                       trade_volumes |-> Append(c.trade_volumes, trade_volume.val),
                       trade_amounts |-> Append(c.trade_amounts, trade_amount.val),
                       open_prices |-> Append(c.open_prices, open_price.val),
                       high_prices |-> Append(c.high_prices, UnwrapOr(high_price, Finite(FALSE, <<>>, 0))),
                       low_prices |-> Append(c.low_prices, low_price.val),
                       close_prices |-> Append(c.close_prices, close_price.val),
                       price_changes |-> Append(c.price_changes, price_change.val),
                       transaction_counts |->
                           Append(c.transaction_counts, transaction_count)]
             ELSE c

\* the loop body with the symbol and the name pushed before the numeric
\* fields are looked at
LoopBodySymbolFirst(c, row, trade_date) ==
    IF Len(row) < 10 THEN c
    ELSE LET trade_volume == parse_i64(Field(row, 2))
             trade_amount == parse_i64(Field(row, 3))
             open_price == parse_f64(Field(row, 4))
             high_price == parse_f64(Field(row, 5))
             low_price == parse_f64(Field(row, 6))
             close_price == parse_f64(Field(row, 7))
             price_change == parse_f64(Field(row, 8))
             named == [c EXCEPT !.stock_codes = Append(@, Field(row, 0)),
                                !.stock_names = Append(@, Field(row, 1))]
         IN  IF trade_volume.some /\ trade_amount.some /\ open_price.some /\ high_price.some
                /\ low_price.some /\ close_price.some /\ price_change.some
             THEN LET transaction_count ==
                          AsI32(UnwrapOr(parse_i64(Field(row, 9)), I64Zero))
                  IN  [named EXCEPT
                          !.trade_dates = Append(@, trade_date),
                          !.trade_volumes = Append(@, trade_volume.val),
                          !.trade_amounts = Append(@, trade_amount.val),
                          !.open_prices = Append(@, open_price.val),
                          !.high_prices = Append(@, high_price.val),
                          !.low_prices = Append(@, low_price.val),
                          !.close_prices = Append(@, close_price.val),
                          !.price_changes = Append(@, price_change.val),
                          !.transaction_counts = Append(@, transaction_count)]
             ELSE named

\* the body of `for row in &resp.data`
LoopBody(c, row, trade_date) ==
    IF Len(row) < 10 THEN c
    ELSE LET trade_volume == parse_i64(Field(row, 2))
             trade_amount == parse_i64(Field(row, 3))
             open_price == parse_f64(Field(row, 4))
             high_price == parse_f64(Field(row, 5))
             low_price == parse_f64(Field(row, 6))
             close_price == parse_f64(Field(row, 7))
             price_change == parse_f64(Field(row, 8))
         IN  IF trade_volume.some /\ trade_amount.some /\ open_price.some /\ high_price.some
                /\ low_price.some /\ close_price.some /\ price_change.some
             THEN LET transaction_count ==
                          AsI32(UnwrapOr(parse_i64(Field(row, 9)), I64Zero))
                  IN  [trade_dates |-> Append(c.trade_dates, trade_date),
                       stock_codes |-> Append(c.stock_codes, Field(row, 0)),
                       stock_names |-> Append(c.stock_names, Field(row, 1)),
                       trade_volumes |-> Append(c.trade_volumes, trade_volume.val),
                       trade_amounts |-> Append(c.trade_amounts, trade_amount.val),
                       open_prices |-> Append(c.open_prices, open_price.val),
                       high_prices |-> Append(c.high_prices, high_price.val),
                       low_prices |-> Append(c.low_prices, low_price.val),
                       close_prices |-> Append(c.close_prices, close_price.val),
                       price_changes |-> Append(c.price_changes, price_change.val),
                       transaction_counts |->
                           Append(c.transaction_counts, transaction_count)]
             ELSE c

RECURSIVE AssembleFrom(_, _, _, _)
AssembleFrom(c, data, i, trade_date) ==
    IF i > Len(data) THEN c
    ELSE AssembleFrom(LoopBody(c, data[i], trade_date), data, i + 1, trade_date)

\* the column vectors the whole loop leaves for an envelope whose date parses
Assemble(body) ==
    AssembleFrom(EmptyCols, body.data, 1, parse_from_str(body.date).val)

(***************************************************************************)
(* The statement: INSERT ... SELECT * FROM UNNEST(11 arrays)               *)
(* ON CONFLICT (trade_date, stock_code) DO NOTHING, on a table that is a   *)
(* sequence of rows in insertion order.                                    *)
(***************************************************************************)
NULL == "NULL"

ColNames ==
    {"trade_dates", "stock_codes", "stock_names", "trade_volumes",
     "trade_amounts", "open_prices", "high_prices", "low_prices",
     "close_prices", "price_changes", "transaction_counts"}

MaxLen(c) ==
    CHOOSE n \in {Len(c[k]) : k \in ColNames} :
        \A k \in ColNames : Len(c[k]) <= n

At(a, i) == IF i <= Len(a) THEN a[i] ELSE NULL

\* UNNEST of several arrays: one row per index, the shorter arrays padded
\* with NULL
Unnest(c) ==
    [i \in 1..MaxLen(c) |->
        [trade_date |-> At(c.trade_dates, i),
         stock_code |-> At(c.stock_codes, i),
         stock_name |-> At(c.stock_names, i),
         trade_volume |-> At(c.trade_volumes, i),
         trade_amount |-> At(c.trade_amounts, i),
         open_price |-> At(c.open_prices, i),
         high_price |-> At(c.high_prices, i),
         low_price |-> At(c.low_prices, i),
         close_price |-> At(c.close_prices, i),
         price_change |-> At(c.price_changes, i),
         transaction_count |-> At(c.transaction_counts, i)]]

\* the conflict target
Key(r) == <<r.trade_date, r.stock_code>>

Rows(table) == {table[i] : i \in 1..Len(table)}

\* a conflict target that is the whole row instead of (trade_date, stock_code)
ConflictsWholeRow(table, r) == r \in Rows(table)

Conflicts(table, r) == \E x \in Rows(table) : Key(x) = Key(r)

RECURSIVE InsertPlain(_, _, _)
\* INSERT without the ON CONFLICT clause
InsertPlain(table, rows, i) ==
    IF i > Len(rows) THEN table
    ELSE InsertPlain(Append(table, rows[i]), rows, i + 1)

RECURSIVE InsertDoUpdate(_, _, _)
\* ON CONFLICT ... DO UPDATE SET (every column) = EXCLUDED
InsertDoUpdate(table, rows, i) ==
    IF i > Len(rows) THEN table
    ELSE IF Conflicts(table, rows[i])
    THEN InsertDoUpdate(
             [j \in 1..Len(table) |->
                 IF Key(table[j]) = Key(rows[i]) THEN rows[i] ELSE table[j]],
             rows, i + 1)
    ELSE InsertDoUpdate(Append(table, rows[i]), rows, i + 1)

RECURSIVE InsertDoNothing(_, _, _)
InsertDoNothing(table, rows, i) ==
    IF i > Len(rows) THEN table
    ELSE IF Conflicts(table, rows[i]) THEN InsertDoNothing(table, rows, i + 1)
    ELSE InsertDoNothing(Append(table, rows[i]), rows, i + 1)

UpsertPlain(table, c) == InsertPlain(table, Unnest(c), 1)

UpsertDoUpdate(table, c) == InsertDoUpdate(table, Unnest(c), 1)

\* the table after the statement, bound to the column vectors c, completed
Upsert(table, c) == InsertDoNothing(table, Unnest(c), 1)

(***************************************************************************)
(* Sample texts, rows and upstream responses.                              *)
(***************************************************************************)
Sym2330 == <<"2", "3", "3", "0">>

Sym2317 == <<"2", "3", "1", "7">>

NameA == <<"T", "S", "M", "C">>

NameB == <<"H", "o", "n", "H", "a", "i">>

NA == <<"N", "/", "A">>

Empty == <<>>

Vol25k == <<"2", "5", ",", "0", "0", "0">>

Vol26k == <<"2", "6", "0", "0", "0">>

Amt15m == <<"1", "5", ",", "0", "0", "0", ",", "0", "0", "0">>

P600 == <<"6", "0", "0", ".", "0">>

P605 == <<"6", "0", "5", ".", "0">>

P598 == <<"5", "9", "8", ".", "0">>

P601 == <<"6", "0", "1", ".", "0">>

P602 == <<"6", "0", "2">>

Chg1 == <<"1", ".", "0">>

ChgNeg == <<"-", "1", ".", "5">>

Cnt12k == <<"1", "2", ",", "0", "0", "0">>

Cnt3e9 == <<"3", "0", "0", "0", "0", "0", "0", "0", "0", "0">>

Frac == <<"1", ".", "5">>

VolNeg == <<"-", "5">>

VolPlus == <<"+", "7">>

I64Over == <<"9", "2", "2", "3", "3", "7", "2", "0", "3", "6", "8", "5", "4", "7", "7", "5", "8", "0", "8">>

VolSpace == <<" ", "2", "5">>

PNan == <<"N", "a", "N">>

PExp == <<"6", "e", "2">>

PDot == <<".">>

Date0102 == <<"2", "0", "2", "4", "0", "1", "0", "2">>

Date0103 == <<"2", "0", "2", "4", "0", "1", "0", "3">>

DateDashed == <<"2", "0", "2", "4", "-", "0", "1", "-", "0", "2">>

DateShort == <<"2", "0", "2", "4", "0", "1", "2">>

DateFeb30 == <<"2", "0", "2", "4", "0", "2", "3", "0">>

DateMonth13 == <<"2", "0", "2", "4", "1", "3", "0", "2">>

DateLong == <<"2", "0", "2", "4", "0", "1", "0", "2", "1">>

\* one upstream row: symbol, name, volume, amount, open, high, low, close,
\* change, transaction count
RowA == <<Sym2330, NameA, Vol25k, Amt15m, P600, P605, P598, P601, Chg1, Cnt12k>>

\* the same symbol with other values
RowA2 == <<Sym2330, NameA, Vol26k, Amt15m, P600, P605, P598, P602, ChgNeg, Cnt12k>>

RowA3 == <<Sym2330, NameA, VolPlus, Amt15m, P600, P605, P598, P598, ChgNeg, Cnt12k>>

RowB == <<Sym2317, NameB, Vol26k, Amt15m, P598, P600, P598, P600, Chg1, NA>>

RowNA == [RowA EXCEPT ![3] = NA]

RowShort == SubSeq(RowA, 1, 9)

RowLong == Append(RowB, NA)

Envelope(date, data) == [json |-> TRUE, date |-> date, data |-> data]

Malformed == [json |-> FALSE, date |-> <<>>, data |-> <<>>]

Unreachable == [kind |-> "unreachable", code |-> 0, body |-> Malformed]

\* what the handler keeps of a response: how it ended, its status and
\* whether its body deserialized
Received(r) == [kind |-> r.kind, code |-> r.code, json |-> r.body.json]

Response(code, body) == [kind |-> "response", code |-> code, body |-> body]

Day1 == Envelope(Date0102, <<RowB, RowA>>)

Day1Revised == Envelope(Date0102, <<RowA2, RowA>>)

Day2Rejected == Envelope(Date0103, <<RowNA, RowShort>>)

BadDate == Envelope(DateDashed, <<RowA>>)

\* Spec: the upstream fails or answers with one of two envelopes for the same
\* day that disagree on a row
SysFeed == {Unreachable, Response(200, Day1), Response(200, Day1Revised)}

\* SpecDup: in one behaviour the upstream fails, answers with a body that is
\* no envelope, or answers with one and the same envelope under one status
DupEnvelopes ==
    {Day1, Day1Revised, Day2Rejected, BadDate,
     Envelope(DateShort, <<RowB>>), Envelope(DateLong, <<RowB>>),
     Envelope(DateMonth13, <<RowB>>), Envelope(DateFeb30, <<RowB>>),
     Envelope(Empty, <<RowB>>)}

DupFeeds ==
    {{Unreachable, Response(200, Malformed), Response(200, body)} :
        body \in DupEnvelopes}
    \cup {{Unreachable, Response(503, Malformed), Response(503, Day1Revised)}}

\* a row persisted by an earlier ingestion of 2024-01-02
Seeded == Unnest(Assemble(Envelope(Date0102, <<RowA3>>)))

InitTables == {<<>>, Seeded}

\* the rows of the row-parser specification: the sample row with one field
\* replaced, and rows of other lengths
FieldTexts ==
    {<<3, NA>>, <<3, VolNeg>>, <<3, VolPlus>>, <<3, I64Over>>, <<4, Frac>>,
     <<4, VolNeg>>, <<5, NA>>, <<5, PNan>>, <<5, PExp>>, <<6, PDot>>,
     <<7, Empty>>, <<8, VolSpace>>, <<9, NA>>, <<10, NA>>, <<10, Frac>>,
     <<10, Cnt3e9>>}

ParseRows ==
    {RowA, RowB, RowShort, RowLong, <<>>}
        \cup {[RowA EXCEPT ![ft[1]] = ft[2]] : ft \in FieldTexts}

RECURSIVE SeqsUpTo(_, _)
\* the sequences over S of length at most n
SeqsUpTo(S, n) ==
    IF n = 0 THEN {<<>>}
    ELSE LET shorter == SeqsUpTo(S, n - 1)
         IN  shorter \cup {Append(q, x) : q \in shorter, x \in S}

ParseDates == {Date0102, DateFeb30}

(***************************************************************************)
(* upload_image (src/src/api/handlers/upload.rs): the multipart request.   *)
(* A part has a field name, an optional file name and content type, the    *)
(* number of its bytes, and whether its bytes are UTF-8, whether they      *)
(* deserialize as FirebaseCredentials, and whether the stream breaks       *)
(* inside it.                                                              *)
(***************************************************************************)
\* const MAX_FILE_SIZE: usize = 10 * 1024 * 1024;
MAX_FILE_SIZE == 10 * 1024 * 1024

\* The Multipart extractor reads the request body through axum's default
\* body limit of 2 MB; create_router installs no DefaultBodyLimit layer that
\* would change it.
DefaultBodyLimit == 2 * 1024 * 1024

\* str::starts_with
StartsWith(s, prefix) ==
    Len(s) >= Len(prefix) /\ SubSeq(s, 1, Len(prefix)) = prefix

ImageSlash == <<"i", "m", "a", "g", "e", "/">>

ImagePng == ImageSlash \o <<"p", "n", "g">>

ImageJpeg == ImageSlash \o <<"j", "p", "e", "g">>

ImageUpper == <<"I", "M", "A", "G", "E", "/", "P", "N", "G">>

TextPlain == <<"t", "e", "x", "t", "/", "p", "l", "a", "i", "n">>

OctetStream ==
    <<"a", "p", "p", "l", "i", "c", "a", "t", "i", "o", "n", "/",
      "o", "c", "t", "e", "t", "-", "s", "t", "r", "e", "a", "m">>

FilePng == <<"a", ".", "p", "n", "g">>

FileJpgUpper == <<"b", ".", "t", "x", "t", ".", "J", "P", "G">>

FileTxt == <<"a", ".", "t", "x", "t">>

\* the letters of the sample file names, in lower case
LowerExt(c) ==
    CASE c = "J" -> "j" [] c = "P" -> "p" [] c = "G" -> "g" [] OTHER -> c

RECURSIVE LastDot(_, _)
\* the position of the last "." of s at or before i, 0 when there is none
LastDot(s, i) ==
    IF i = 0 THEN 0 ELSE IF s[i] = "." THEN i ELSE LastDot(s, i - 1)

\* Path::extension: what follows the last "." of the file name, unless the
\* name has none or only a leading one
PathExtension(path) ==
    LET d == LastDot(path, Len(path))
    IN  IF d <= 1 THEN None ELSE Some(SubSeq(path, d + 1, Len(path)))

\* mime_guess::from_path(path).first_or_octet_stream(): a lookup of the
\* extension, without regard to case
MimeGuess(path) ==
    LET e == PathExtension(path)
        ext == IF e.some THEN [i \in 1..Len(e.val) |-> LowerExt(e.val[i])] ELSE <<>>
    IN  IF ext = <<"p", "n", "g">> THEN ImagePng
        ELSE IF ext \in {<<"j", "p", "g">>, <<"j", "p", "e", "g">>} THEN ImageJpeg
        ELSE IF ext = <<"t", "x", "t">> THEN TextPlain
        ELSE OctetStream

\* name.split('.').last(): what follows the last ".", the whole name when
\* there is none
LastSegment(name) == SubSeq(name, LastDot(name, Len(name)) + 1, Len(name))

Part(name, file_name, content_type, size, utf8, creds, broken) ==
    [name |-> name, file_name |-> file_name, content_type |-> content_type,
     size |-> size, utf8 |-> utf8, creds |-> creds, broken |-> broken]

Absent == [some |-> FALSE, val |-> <<>>]

FilePart(name, file_name, content_type, size) ==
    Part(name, file_name, content_type, size, FALSE, FALSE, FALSE)

TextPart(name, utf8, creds) ==
    Part(name, Absent, Absent, 2048, utf8, creds, FALSE)

SmallFile == 4096

SampleParts ==
    {FilePart("image", Some(FilePng), Some(ImagePng), SmallFile),
     FilePart("image", Some(FilePng), Some(ImagePng), 3 * 1024 * 1024),
     FilePart("image", Some(FilePng), Some(ImagePng), MAX_FILE_SIZE + 1),
     FilePart("file", Some(FileJpgUpper), Absent, SmallFile),
     FilePart("file", Some(FileTxt), Absent, SmallFile),
     FilePart("file", Some(<<"p", "n", "g">>), Some(TextPlain), SmallFile),
     FilePart("image", Absent, Some(ImageUpper), SmallFile),
     FilePart("image", Absent, Absent, 0),
     [FilePart("image", Some(FilePng), Some(ImagePng), SmallFile) EXCEPT !.broken = TRUE],
     TextPart("credentials", TRUE, TRUE),
     TextPart("credentials", TRUE, FALSE),
     TextPart("credentials", FALSE, FALSE),
     TextPart("bucket", TRUE, FALSE),
     TextPart("note", TRUE, FALSE)}

\* number of parts of a request
MaxParts == 3

Forms == SeqsUpTo(SampleParts, MaxParts)

RECURSIVE BodyRead(_, _)
\* the bytes of the parts up to part i (the framing adds to them)
BodyRead(parts, i) ==
    IF i = 0 THEN 0 ELSE parts[i].size + BodyRead(parts, i - 1)

\* the locals of upload_image before the first field is read
UpIdle ==
    [pc |-> "idle", pos |-> 0,
     file_data |-> [some |-> FALSE, val |-> 0],
     original_filename |-> Absent,
     content_type |-> Absent,
     credentials_json |-> [some |-> FALSE, val |-> FALSE],
     bucket_name |-> [some |-> FALSE, val |-> FALSE],
     mime_type |-> <<>>, extension |-> <<>>,
     calls |-> 0, status |-> 0]

(***************************************************************************)
(* State.                                                                  *)
(***************************************************************************)
NumTasks == 2

Tasks == 1..NumTasks

VARIABLES
    feed,        \* the responses the upstream may give
    db,          \* the table stock_day_all, in insertion order
    pc,          \* where each request-handling task is in the handler
    http,        \* the upstream response the task received
    resp,        \* the deserialized TwseApiResponse
    trade_date,  \* the parsed date
    idx,         \* the position of the loop in resp.data
    cols,        \* the eleven column vectors
    stmt,        \* the vectors bound to the statement handed to the pool
    status,      \* the HTTP status of the task's reply, 0 while there is none
    obs,         \* per invocation: requests sent, statements issued, rows written
    db0,         \* the table before the first invocation
    form,        \* the parts of the multipart request sent to upload_image
    up,          \* upload_image: its position, its locals, its reply
    boot,        \* setup_app_state: its position and retry_count
    reach        \* which services can be reached at this moment

\* the variables of get_stock_day_all
ingestion ==
    <<feed, db, pc, http, resp, trade_date, idx, cols, stmt, status, obs, db0>>

\* the variables of setup_app_state
startup == <<boot, reach>>

\* the variables of the rest of the program
elsewhere == <<form, up, startup>>

vars == <<ingestion, elsewhere>>

\* setup_app_state has returned the AppState: the server takes requests
BootReady == [pc |-> "ready", retry_count |-> 0, waits |-> 0, err |-> "none"]

InitElsewhere ==
    /\ form = <<>>
    /\ up = UpIdle
    /\ boot = BootReady
    /\ reach = [db |-> TRUE, redis |-> TRUE, url |-> TRUE]

NoHttp == [kind |-> "none", code |-> 0, json |-> FALSE]

NoResp == [date |-> <<>>, data |-> <<>>]

NoDate == [year |-> 0, month |-> 0, day |-> 0]

NoObs == [fetches |-> 0, issued |-> 0, applied |-> FALSE, wrote |-> {}]

\* From<reqwest::Error>: INTERNAL_SERVER_ERROR
StatusFromReqwest == 500

\* From<sqlx::Error>: INTERNAL_SERVER_ERROR
StatusFromSqlx == 500

\* a date error reported like the other conversions
StatusFromChronoAsInternal == StatusFromSqlx

\* From<chrono::ParseError>: BAD_REQUEST
StatusFromChrono == 400

\* success(): StatusCode::OK
StatusOk == 200

\* TimeoutLayer::with_status_code(StatusCode::SERVICE_UNAVAILABLE, ..)
StatusTimeout == 503

InitCommon ==
    /\ pc = [p \in Tasks |-> "idle"]
    /\ http = [p \in Tasks |-> NoHttp]
    /\ resp = [p \in Tasks |-> NoResp]
    /\ trade_date = [p \in Tasks |-> NoDate]
    /\ idx = [p \in Tasks |-> 0]
    /\ cols = [p \in Tasks |-> EmptyCols]
    /\ stmt = [p \in Tasks |-> EmptyCols]
    /\ status = [p \in Tasks |-> 0]
    /\ obs = [p \in Tasks |-> NoObs]
    /\ db0 = db

Init ==
    /\ feed = SysFeed
    /\ db \in InitTables
    /\ InitCommon
    /\ InitElsewhere

\* duplicate ingestions: every fetch that succeeds yields the same envelope
InitDup ==
    /\ feed \in DupFeeds
    /\ db \in InitTables
    /\ InitCommon
    /\ InitElsewhere

\* the row-parser specification: one envelope, an empty table
InitParse ==
    /\ \E date \in ParseDates, data \in SeqsUpTo(ParseRows, MaxRows) :
           feed = {Response(200, Envelope(date, data))}
    /\ db = <<>>
    /\ InitCommon
    /\ InitElsewhere

(***************************************************************************)
(* The handler get_stock_day_all, one action per step between two awaits   *)
(* or two passes of the loop.                                              *)
(***************************************************************************)
\* a request is routed to the handler, which sends its GET
Start(p) ==
    /\ pc[p] \in {"idle", "done"}
    /\ pc' = [pc EXCEPT ![p] = "fetching"]
    /\ http' = [http EXCEPT ![p] = NoHttp]
    /\ resp' = [resp EXCEPT ![p] = NoResp]
    /\ trade_date' = [trade_date EXCEPT ![p] = NoDate]
    /\ idx' = [idx EXCEPT ![p] = 0]
    /\ cols' = [cols EXCEPT ![p] = EmptyCols]
    /\ stmt' = [stmt EXCEPT ![p] = EmptyCols]
    /\ status' = [status EXCEPT ![p] = 0]
    /\ obs' = [obs EXCEPT ![p] = [NoObs EXCEPT !.fetches = 1]]
    /\ UNCHANGED <<elsewhere, feed, db, db0>>

\* send().await? fails: the upstream cannot be reached
FetchError(p) ==
    /\ pc[p] = "fetching"
    /\ \E r \in feed :
        /\ r.kind = "unreachable"
        /\ http' = [http EXCEPT ![p] = Received(r)]
    /\ status' = [status EXCEPT ![p] = StatusFromReqwest]
    /\ pc' = [pc EXCEPT ![p] = "done"]
    /\ UNCHANGED <<elsewhere, feed, db, resp, trade_date, idx, cols, stmt, obs, db0>>

\* send().await? yields a response, of any status; json().await? reads its
\* body as a TwseApiResponse or fails
FetchResponse(p) ==
    /\ pc[p] = "fetching"
    /\ \E r \in feed :
        /\ r.kind = "response"
        /\ http' = [http EXCEPT ![p] = Received(r)]
        /\ IF r.body.json
           THEN /\ resp' = [resp EXCEPT ![p] = [date |-> r.body.date, data |-> r.body.data]]
                /\ pc' = [pc EXCEPT ![p] = "dating"]
                /\ UNCHANGED status
           ELSE /\ status' = [status EXCEPT ![p] = StatusFromReqwest]
                /\ pc' = [pc EXCEPT ![p] = "done"]
                /\ UNCHANGED resp
    /\ UNCHANGED <<elsewhere, feed, db, trade_date, idx, cols, stmt, obs, db0>>

\* let trade_date = NaiveDate::parse_from_str(&resp.date, "%Y%m%d")?;
ParseDate(p) ==
    /\ pc[p] = "dating"
    /\ LET d == parse_from_str(resp[p].date)
       IN  IF d.some
           THEN /\ trade_date' = [trade_date EXCEPT ![p] = d.val]
                /\ idx' = [idx EXCEPT ![p] = 1]
                /\ pc' = [pc EXCEPT ![p] = "assembling"]
                /\ UNCHANGED status
           ELSE /\ status' = [status EXCEPT ![p] = StatusFromChrono]
                /\ pc' = [pc EXCEPT ![p] = "done"]
                /\ UNCHANGED <<trade_date, idx>>
    /\ UNCHANGED <<elsewhere, feed, db, http, resp, cols, stmt, obs, db0>>

\* one pass of `for row in &resp.data`
LoopStep(p) ==
    /\ pc[p] = "assembling"
    /\ idx[p] <= Len(resp[p].data)
    /\ cols' = [cols EXCEPT ![p] = LoopBody(@, resp[p].data[idx[p]], trade_date[p])]
    /\ idx' = [idx EXCEPT ![p] = @ + 1]
    /\ UNCHANGED <<elsewhere, feed, db, pc, http, resp, trade_date, stmt, status, obs, db0>>

\* a handler that answers at once when no row was accepted
BindSkipEmpty(p) ==
    /\ pc[p] = "assembling"
    /\ idx[p] > Len(resp[p].data)
    /\ IF Len(cols[p].stock_codes) = 0
       THEN /\ status' = [status EXCEPT ![p] = StatusOk]
            /\ pc' = [pc EXCEPT ![p] = "done"]
            /\ UNCHANGED <<stmt, obs>>
       ELSE /\ stmt' = [stmt EXCEPT ![p] = cols[p]]
            /\ obs' = [obs EXCEPT ![p].issued = @ + 1]
            /\ pc' = [pc EXCEPT ![p] = "executing"]
            /\ UNCHANGED status
    /\ UNCHANGED <<elsewhere, feed, db, http, resp, trade_date, idx, cols, db0>>

\* the loop is over: sqlx::query(query).bind(..) x 11 .execute(&state.db)
Bind(p) ==
    /\ pc[p] = "assembling"
    /\ idx[p] > Len(resp[p].data)
    /\ stmt' = [stmt EXCEPT ![p] = cols[p]]
    /\ obs' = [obs EXCEPT ![p].issued = @ + 1]
    /\ pc' = [pc EXCEPT ![p] = "executing"]
    /\ UNCHANGED <<elsewhere, feed, db, http, resp, trade_date, idx, cols, status, db0>>

\* the database completes the statement
ExecuteApply(p) ==
    /\ pc[p] = "executing"
    /\ db' = Upsert(db, stmt[p])
    /\ pc' = [pc EXCEPT ![p] = "executed"]
    /\ obs' = [obs EXCEPT ![p].applied = TRUE,
                          ![p].wrote = Rows(db') \ Rows(db)]
    /\ UNCHANGED <<elsewhere, feed, http, resp, trade_date, idx, cols, stmt, status, db0>>

\* execute(..).await? fails: no connection, or the statement is refused
ExecuteError(p) ==
    /\ pc[p] = "executing"
    /\ status' = [status EXCEPT ![p] = StatusFromSqlx]
    /\ pc' = [pc EXCEPT ![p] = "done"]
    /\ UNCHANGED <<elsewhere, feed, db, http, resp, trade_date, idx, cols, stmt, obs, db0>>

\* execute(..).await? returns Ok: Ok(success(..))
Ack(p) ==
    /\ pc[p] = "executed"
    /\ status' = [status EXCEPT ![p] = StatusOk]
    /\ pc' = [pc EXCEPT ![p] = "done"]
    /\ UNCHANGED <<elsewhere, feed, db, http, resp, trade_date, idx, cols, stmt, obs, db0>>

\* the router's TimeoutLayer drops the handler at one of its awaits
Timeout(p) ==
    /\ pc[p] \in {"fetching", "executing", "executed"}
    /\ status' = [status EXCEPT ![p] = StatusTimeout]
    /\ pc' = [pc EXCEPT ![p] = "done"]
    /\ UNCHANGED <<elsewhere, feed, db, http, resp, trade_date, idx, cols, stmt, obs, db0>>

Next ==
    \E p \in Tasks :
        \/ Start(p)
        \/ FetchError(p)
        \/ FetchResponse(p)
        \/ ParseDate(p)
        \/ LoopStep(p)
        \/ Bind(p)
        \/ ExecuteApply(p)
        \/ ExecuteError(p)
        \/ Ack(p)
        \/ Timeout(p)

Spec == Init /\ [][Next]_vars

\* the synchronous part of one invocation: from the envelope to the statement
NextParse ==
    \/ Start(1)
    \/ FetchResponse(1)
    \/ ParseDate(1)
    \/ LoopStep(1)
    \/ Bind(1)

SpecDup == InitDup /\ [][Next]_vars

SpecParse == InitParse /\ [][NextParse]_vars

(***************************************************************************)
(* The handler upload_image: one action per field read from the multipart  *)
(* stream, one for the validations between the end of the stream and the   *)
(* upload call, and the outcomes of that call.                             *)
(***************************************************************************)
\* AppError::bad_request: BAD_REQUEST
StatusBadRequest == 400

\* AppError::payload_too_large: PAYLOAD_TOO_LARGE
StatusPayloadTooLarge == 413

\* AppError::internal_error: INTERNAL_SERVER_ERROR
StatusInternalError == 500

\* the handler returns Err(e) or Ok(..) with this status
Reply(u, code) == [u EXCEPT !.pc = "done", !.status = code]

InitUpload ==
    /\ form \in Forms
    /\ up = UpIdle
    /\ boot = BootReady
    /\ reach = [db |-> TRUE, redis |-> TRUE, url |-> TRUE]
    /\ feed = {}
    /\ db = <<>>
    /\ InitCommon

\* POST /upload_image is routed to the handler
UploadStart ==
    /\ up.pc = "idle"
    /\ up' = [up EXCEPT !.pc = "reading", !.pos = 1]
    /\ UNCHANGED <<ingestion, form, startup>>

\* one pass of `while let Some(field) = multipart.next_field().await`:
\* the field is found and, for the names the handler knows, its bytes are read
ReadField ==
    /\ up.pc = "reading"
    /\ up.pos <= Len(form)
    /\ LET field == form[up.pos]
           next == [up EXCEPT !.pos = @ + 1]
       IN  up' =
             IF field.broken \/ BodyRead(form, up.pos) > DefaultBodyLimit
             THEN Reply(up, StatusBadRequest)
             ELSE IF field.name \in {"image", "file"}
             THEN [next EXCEPT !.original_filename = field.file_name,
                               !.content_type = field.content_type,
                               !.file_data = [some |-> TRUE, val |-> field.size]]
             ELSE IF field.name = "credentials"
             THEN IF field.utf8
                  THEN [next EXCEPT !.credentials_json =
                                        [some |-> TRUE, val |-> field.creds]]
                  ELSE Reply(up, StatusBadRequest)
             ELSE IF field.name = "bucket"
             THEN IF field.utf8
                  THEN [next EXCEPT !.bucket_name = [some |-> TRUE, val |-> TRUE]]
                  ELSE Reply(up, StatusBadRequest)
             ELSE next
    /\ UNCHANGED <<ingestion, form, startup>>

\* the validations between the loop and the upload call: the file is there,
\* its size, its MIME type, the credentials are there and deserialize; then
\* the bucket and the file name are made and the upload is called
Validate(u) ==
    LET mime_type == IF u.content_type.some THEN u.content_type.val
                     ELSE MimeGuess(u.original_filename.val)
    IN  IF ~u.file_data.some THEN Reply(u, StatusBadRequest)
        ELSE IF u.file_data.val > MAX_FILE_SIZE THEN Reply(u, StatusPayloadTooLarge)
        ELSE IF ~StartsWith(mime_type, ImageSlash) THEN Reply(u, StatusBadRequest)
        ELSE IF ~u.credentials_json.some THEN Reply(u, StatusBadRequest)
        ELSE IF ~u.credentials_json.val THEN Reply(u, StatusBadRequest)
        ELSE [u EXCEPT !.pc = "uploading", !.calls = @ + 1,
                       !.mime_type = mime_type,
                       !.extension = IF u.original_filename.some
                                     THEN LastSegment(u.original_filename.val)
                                     ELSE <<"j", "p", "g">>]

\* next_field() yields None: the stream is over and the handler validates
EndOfFields ==
    /\ up.pc = "reading"
    /\ up.pos > Len(form)
    /\ up' = Validate(up)
    /\ UNCHANGED <<ingestion, form, startup>>

\* upload_to_user_firebase(..).await returns the URL: Ok(success(..))
UploadOk ==
    /\ up.pc = "uploading"
    /\ up' = Reply(up, StatusOk)
    /\ UNCHANGED <<ingestion, form, startup>>

\* upload_to_user_firebase(..).await fails: AppError::internal_error
UploadError ==
    /\ up.pc = "uploading"
    /\ up' = Reply(up, StatusInternalError)
    /\ UNCHANGED <<ingestion, form, startup>>

\* the router's TimeoutLayer drops the handler at one of its awaits
UploadTimeout ==
    /\ up.pc \in {"reading", "uploading"}
    /\ up' = Reply(up, StatusTimeout)
    /\ UNCHANGED <<ingestion, form, startup>>

NextUpload ==
    \/ UploadStart
    \/ ReadField
    \/ EndOfFields
    \/ UploadOk
    \/ UploadError
    \/ UploadTimeout

SpecUpload == InitUpload /\ [][NextUpload]_vars

(***************************************************************************)
(* setup_app_state (src/src/bootstrap.rs): the database retry loop, the    *)
(* HTTP client, the Redis client and the Redis retry loop.  The services   *)
(* come and go as they like while the function runs.                       *)
(***************************************************************************)
\* let max_retries = 5;
max_retries == 5

\* the passes of the Redis loop that are counted (the loop itself counts none)
MaxWaits == 2

InitBoot ==
    /\ boot = [pc |-> "db_connect", retry_count |-> 0, waits |-> 0, err |-> "none"]
    /\ reach \in [db : BOOLEAN, redis : BOOLEAN, url : BOOLEAN]
    /\ form = <<>>
    /\ up = UpIdle
    /\ feed = {}
    /\ db = <<>>
    /\ InitCommon

Returned == boot.pc \in {"ready", "failed"}

\* PgPoolOptions::new()...connect(..).await is Ok(pool): break pool
DbConnectOk ==
    /\ boot.pc = "db_connect"
    /\ reach.db
    /\ boot' = [boot EXCEPT !.pc = "http_client"]
    /\ UNCHANGED <<ingestion, form, up, reach>>

\* a retry loop that gives up one failure early
DbConnectErrGiveUpEarly ==
    /\ boot.pc = "db_connect"
    /\ ~reach.db
    /\ LET n == boot.retry_count + 1
       IN  boot' = [boot EXCEPT
                       !.retry_count = n,
                       !.pc = IF n >= max_retries THEN "failed" ELSE "db_sleep",
                       !.err = IF n >= max_retries THEN "db" ELSE "none"]
    /\ UNCHANGED <<ingestion, form, up, reach>>

\* connect(..).await is Err(e): retry_count += 1, then give up or sleep
DbConnectErr ==
    /\ boot.pc = "db_connect"
    /\ ~reach.db
    /\ LET n == boot.retry_count + 1
       IN  boot' = [boot EXCEPT
                       !.retry_count = n,
                       !.pc = IF n > max_retries THEN "failed" ELSE "db_sleep",
                       !.err = IF n > max_retries THEN "db" ELSE "none"]
    /\ UNCHANGED <<ingestion, form, up, reach>>

\* tokio::time::sleep(Duration::from_secs(2)).await is over
DbSleepOver ==
    /\ boot.pc = "db_sleep"
    /\ boot' = [boot EXCEPT !.pc = "db_connect"]
    /\ UNCHANGED <<ingestion, form, up, reach>>

\* Client::builder().timeout(..).build() is Ok
HttpClientOk ==
    /\ boot.pc = "http_client"
    /\ boot' = [boot EXCEPT !.pc = "redis_open"]
    /\ UNCHANGED <<ingestion, form, up, reach>>

\* Client::builder().timeout(..).build() is Err: wrap_err(..)?
HttpClientErr ==
    /\ boot.pc = "http_client"
    /\ boot' = [boot EXCEPT !.pc = "failed", !.err = "http_client"]
    /\ UNCHANGED <<ingestion, form, up, reach>>

\* RedisClient::open(config.valkey_url.as_str()): the URL parses or not
RedisOpen ==
    /\ boot.pc = "redis_open"
    /\ boot' = IF reach.url THEN [boot EXCEPT !.pc = "redis_connect"]
               ELSE [boot EXCEPT !.pc = "failed", !.err = "redis_client"]
    /\ UNCHANGED <<ingestion, form, up, reach>>

\* redis_client.get_connection_manager().await is Ok(manager)
RedisManagerOk ==
    /\ boot.pc = "redis_connect"
    /\ reach.redis
    /\ boot' = [boot EXCEPT !.pc = "redis_ping"]
    /\ UNCHANGED <<ingestion, form, up, reach>>

\* get_connection_manager().await is Err(e): warn, then sleep
RedisManagerErr ==
    /\ boot.pc = "redis_connect"
    /\ ~reach.redis
    /\ boot' = [boot EXCEPT !.pc = "redis_sleep",
                            !.waits = IF @ < MaxWaits THEN @ + 1 ELSE @]
    /\ UNCHANGED <<ingestion, form, up, reach>>

\* test_redis_connection(&manager).await.is_ok(): break manager, Ok(AppState)
RedisPingOk ==
    /\ boot.pc = "redis_ping"
    /\ reach.redis
    /\ boot' = [boot EXCEPT !.pc = "ready"]
    /\ UNCHANGED <<ingestion, form, up, reach>>

\* the PING fails: warn, then sleep
RedisPingErr ==
    /\ boot.pc = "redis_ping"
    /\ ~reach.redis
    /\ boot' = [boot EXCEPT !.pc = "redis_sleep",
                            !.waits = IF @ < MaxWaits THEN @ + 1 ELSE @]
    /\ UNCHANGED <<ingestion, form, up, reach>>

\* tokio::time::sleep(Duration::from_secs(2)).await is over: loop again
RedisSleepOver ==
    /\ boot.pc = "redis_sleep"
    /\ boot' = [boot EXCEPT !.pc = "redis_connect"]
    /\ UNCHANGED <<ingestion, form, up, reach>>

\* the database or Redis/Valkey comes up or goes down
ServiceChange ==
    /\ ~Returned
    /\ \E s \in {"db", "redis"} : reach' = [reach EXCEPT ![s] = ~@]
    /\ UNCHANGED <<ingestion, form, up, boot>>

\* the steps of setup_app_state
BootStep ==
    \/ DbConnectOk
    \/ DbConnectErr
    \/ DbSleepOver
    \/ HttpClientOk
    \/ HttpClientErr
    \/ RedisOpen
    \/ RedisManagerOk
    \/ RedisManagerErr
    \/ RedisPingOk
    \/ RedisPingErr
    \/ RedisSleepOver

NextBoot == BootStep \/ ServiceChange

\* every await of setup_app_state completes: a connection attempt ends in
\* Ok or Err, a sleep ends after its two seconds
SpecBoot == InitBoot /\ [][NextBoot]_vars /\ WF_vars(BootStep)

(***************************************************************************)
(* Properties.                                                             *)
(***************************************************************************)
Fetched(p) == http[p].kind = "response" /\ http[p].json

DateParses(p) == parse_from_str(resp[p].date).some

Last(a) == a[Len(a)]

\* C1: once the statement of an ingestion of a payload has completed, the
\* statement of a further ingestion of the same payload leaves the table as
\* it is, whatever the table was at first and whatever was ingested between.
C1_Idempotent ==
    \A p \in Tasks : obs[p].applied => Upsert(db, Assemble(resp[p])) = db

\* the same payload was ingested twice: the first run wrote rows, the second
\* none
C1_Witness ==
    \E p, q \in Tasks :
        /\ p # q /\ resp[p] = resp[q]
        /\ pc[p] = "done" /\ status[p] = StatusOk
        /\ pc[q] = "done" /\ status[q] = StatusOk
        /\ obs[p].wrote # {} /\ obs[q].wrote = {}
        /\ Len(stmt[q].stock_codes) > 0

\* C2: no step changes or removes a persisted row: every row of the table is
\* still in it after the step, and is the only row of its key.
C2_NeverOverwritten ==
    [][\A r \in Rows(db) :
          /\ r \in Rows(db')
          /\ \A x \in Rows(db') : Key(x) = Key(r) => x = r]_vars

\* a statement has completed that carried, for the key of a row persisted by
\* someone else, a row with other values
C2_Witness ==
    \E p \in Tasks :
        /\ obs[p].applied
        /\ \E r \in Rows(Unnest(stmt[p])), x \in Rows(db) :
            /\ Key(x) = Key(r) /\ x # r
            /\ x \notin Rows(Unnest(stmt[p]))

\* the envelope every successful fetch of a behaviour of SpecDup yields
TheEnvelope == (CHOOSE r \in feed : r.kind = "response" /\ r.body.json).body

\* the table a single ingestion of that envelope leaves
SingleIngestion == Upsert(db0, Assemble(TheEnvelope))

C4_BadDateFails ==
    \A p \in Tasks :
        (pc[p] \in {"dating", "done"} /\ Fetched(p) /\ ~DateParses(p)) =>
            /\ pc[p] = "done" => status[p] = 400
            /\ obs[p].issued = 0 /\ ~obs[p].applied /\ obs[p].wrote = {}
            /\ db = db0

C4_Witness ==
    \E p \in Tasks :
        /\ pc[p] = "done" /\ Fetched(p) /\ ~DateParses(p)
        /\ Len(resp[p].data) > 0 /\ status[p] = 400

\* the transport errors of the claim: the upstream is unreachable, answers
\* with a status outside 2xx, or answers with a body that is no envelope
TransportError(h) ==
    \/ h.kind = "unreachable"
    \/ h.kind = "response" /\ (h.code \notin 200..299 \/ ~h.json)

\* C5: an invocation that met a transport error ends with status 500, has
\* sent one request and has issued no statement.
C5_TransportErrorFatal ==
    \A p \in Tasks :
        (pc[p] = "done" /\ TransportError(http[p])) =>
            /\ status[p] = 500
            /\ obs[p].fetches = 1
            /\ obs[p].issued = 0

\* a field that parses as an integer, as a number, once commas are stripped
IntText(t) == ParseI64(StripCommas(t)).some

NumText(t) == ParseF64(StripCommas(t)).some

\* at least 10 fields; volume and amount are integers, the five prices are
\* numbers
Accepted(row) ==
    /\ Len(row) >= 10
    /\ IntText(Field(row, 2)) /\ IntText(Field(row, 3))
    /\ \A k \in 4..8 : NumText(Field(row, k))

\* C6: after every pass of the loop and at the statement, the column vectors
\* hold exactly the accepted rows among the rows seen so far, in upstream
\* order: the rejected rows are absent and change nothing else.
C6_BatchIsAcceptedSubsequence ==
    pc[1] \in {"assembling", "executing"} =>
        LET seen == SubSeq(resp[1].data, 1, idx[1] - 1)
            kept == SelectSeq(seen, Accepted)
            c == cols[1]
        IN  /\ \A k \in ColNames : Len(c[k]) = Len(kept)
            /\ \A i \in 1..Len(kept) :
                /\ c.trade_dates[i] = trade_date[1]
                /\ c.stock_codes[i] = Field(kept[i], 0)
                /\ c.stock_names[i] = Field(kept[i], 1)
                /\ c.trade_volumes[i] = ParseI64(StripCommas(Field(kept[i], 2))).val
                /\ c.trade_amounts[i] = ParseI64(StripCommas(Field(kept[i], 3))).val
                /\ c.open_prices[i] = ParseF64(StripCommas(Field(kept[i], 4))).val
                /\ c.high_prices[i] = ParseF64(StripCommas(Field(kept[i], 5))).val
                /\ c.low_prices[i] = ParseF64(StripCommas(Field(kept[i], 6))).val
                /\ c.close_prices[i] = ParseF64(StripCommas(Field(kept[i], 7))).val
                /\ c.price_changes[i] = ParseF64(StripCommas(Field(kept[i], 8))).val
            /\ pc[1] = "executing" => stmt[1] = c

\* the statement carries the second of two rows, the first was rejected
C6_Witness ==
    /\ pc[1] = "executing"
    /\ Len(resp[1].data) = 2
    /\ ~Accepted(resp[1].data[1]) /\ Len(resp[1].data[1]) >= 10
    /\ Accepted(resp[1].data[2])
    /\ stmt[1].stock_codes = <<Field(resp[1].data[2], 0)>>

\* a row the claim is about: long enough, fields 2-8 numeric, field 9 not
CountUnparseable(row) == Accepted(row) /\ ~IntText(Field(row, 9))

\* C7: the pass of the loop over a row whose transaction count does not
\* parse appends the row to the vectors, with transaction count 0.
C7_CountDefaultsToZero ==
    [][(pc[1] = "assembling" /\ idx'[1] = idx[1] + 1
          /\ CountUnparseable(resp[1].data[idx[1]])) =>
          /\ Len(cols'[1].transaction_counts) = Len(cols[1].transaction_counts) + 1
          /\ Last(cols'[1].transaction_counts) = 0
          /\ Len(cols'[1].stock_codes) = Len(cols[1].stock_codes) + 1
          /\ Last(cols'[1].stock_codes) = Field(resp[1].data[idx[1]], 0)]_vars

C7_Witness ==
    /\ pc[1] = "assembling" /\ idx[1] > 1
    /\ CountUnparseable(resp[1].data[idx[1] - 1])
    /\ Len(cols[1].transaction_counts) > 0
    /\ Last(cols[1].transaction_counts) = 0

\* C8: an invocation issues at most one statement; one whose fetch and date
\* parse succeeded has, when it ends, issued exactly one, bound to the
\* vectors of all accepted rows (none, possibly); status 200 is given only
\* after the statement completed, and a statement that failed gives 500.
C8_OneStatement ==
    \A p \in Tasks :
        /\ obs[p].issued <= 1
        /\ (pc[p] = "done" /\ Fetched(p) /\ DateParses(p)) =>
               /\ obs[p].issued = 1
               /\ stmt[p] = Assemble(resp[p])
        /\ status[p] = 200 => obs[p].issued = 1 /\ obs[p].applied
        /\ (pc[p] = "done" /\ obs[p].issued = 1 /\ ~obs[p].applied
              /\ status[p] # StatusTimeout) => status[p] = 500

\* an invocation that accepted no row completed its empty statement and
\* acknowledged
C8_Witness ==
    \E p \in Tasks :
        /\ pc[p] = "done" /\ status[p] = 200
        /\ Len(resp[p].data) > 0
        /\ obs[p].issued = 1 /\ obs[p].applied
        /\ Len(stmt[p].stock_codes) = 0

\* C9: every accepted record has a non-negative volume, amount and
\* transaction count.
C9_NonNegative ==
    LET c == cols[1]
    IN  /\ \A i \in 1..Len(c.trade_volumes) : ~c.trade_volumes[i].neg
        /\ \A i \in 1..Len(c.trade_amounts) : ~c.trade_amounts[i].neg
        /\ \A i \in 1..Len(c.transaction_counts) : c.transaction_counts[i] >= 0

UniqueKeys(table) ==
    \A i, j \in 1..Len(table) : Key(table[i]) = Key(table[j]) => i = j

\* C10: the table never holds two rows of one (trade_date, stock_code), and
\* no step removes a row.
C10_UniqueAndGrowing ==
    /\ []UniqueKeys(db)
    /\ [][Rows(db) \subseteq Rows(db') /\ Len(db) <= Len(db')]_vars

\* two invocations overlap, the statements of both have completed, one of
\* them repeated a key, and the table holds rows of both
C10_Witness ==
    \E p, q \in Tasks :
        /\ p # q
        /\ pc[p] = "executed" /\ pc[q] = "executed"
        /\ ~UniqueKeys(Unnest(stmt[p]))
        /\ obs[p].wrote # {} /\ obs[q].wrote # {}

\* the record the eleven vectors hold at index i
ColumnsAt(c, i) == [k \in ColNames |-> c[k][i]]

\* the eleven values the handler derives from one upstream row
FieldsOf(row, date) ==
    [trade_dates |-> date,
     stock_codes |-> Field(row, 0),
     stock_names |-> Field(row, 1),
     trade_volumes |-> ParseI64(StripCommas(Field(row, 2))).val,
     trade_amounts |-> ParseI64(StripCommas(Field(row, 3))).val,
     open_prices |-> ParseF64(StripCommas(Field(row, 4))).val,
     high_prices |-> ParseF64(StripCommas(Field(row, 5))).val,
     low_prices |-> ParseF64(StripCommas(Field(row, 6))).val,
     close_prices |-> ParseF64(StripCommas(Field(row, 7))).val,
     price_changes |-> ParseF64(StripCommas(Field(row, 8))).val,
     transaction_counts |->
         LET n == ParseI64(StripCommas(Field(row, 9)))
         IN  IF n.some THEN AsI32(n.val) ELSE 0]

\* the vectors have one length, and every index holds the eleven fields of
\* one accepted row among `rows`, under the date of the response
Aligned(c, rows, date) ==
    /\ \A k \in ColNames : Len(c[k]) = Len(c.trade_dates)
    /\ \A i \in 1..Len(c.trade_dates) :
        \E j \in 1..Len(rows) :
            /\ Accepted(rows[j])
            /\ ColumnsAt(c, i) = FieldsOf(rows[j], date)

\* a step leaves the vectors as they are or appends one value to each
AllOrNone(c, d) ==
    \/ d = c
    \/ \A k \in ColNames :
        /\ Len(d[k]) = Len(c[k]) + 1
        /\ SubSeq(d[k], 1, Len(c[k])) = c[k]

\* C12: during the loop and at the statement the eleven vectors have the
\* same length, every index holds the fields of one accepted row of the rows
\* seen so far together with the parsed date of the response, and every pass
\* of the loop appends to all eleven vectors or to none.
C12_ColumnsAligned ==
    /\ [](pc[1] \in {"assembling", "executing"} =>
            /\ Aligned(cols[1], SubSeq(resp[1].data, 1, idx[1] - 1),
                       parse_from_str(resp[1].date).val)
            /\ pc[1] = "executing" =>
                   Aligned(stmt[1], resp[1].data, parse_from_str(resp[1].date).val))
    /\ [][pc[1] = "assembling" => AllOrNone(cols[1], cols'[1])]_vars

\* the loop has passed an accepted row and then a rejected row of full
\* length: the vectors hold the first row only
C12_Witness ==
    /\ pc[1] = "assembling" /\ idx[1] = 3
    /\ Accepted(resp[1].data[1])
    /\ ~Accepted(resp[1].data[2]) /\ Len(resp[1].data[2]) >= 10
    /\ \A k \in ColNames : Len(cols[1][k]) = 1
    /\ cols[1].stock_codes[1] = Field(resp[1].data[1], 0)

\* the i64 value v is the integer n
I64IsInt(v, n) ==
    /\ v.mag[3] = 0 /\ v.mag[4] = 0
    /\ IF v.neg
       THEN \/ v.mag[2] < HalfLimb /\ n = 0 - (v.mag[2] * Limb + v.mag[1])
            \/ v.mag[2] = HalfLimb /\ v.mag[1] = 0 /\ n = MinI32
       ELSE v.mag[2] < HalfLimb /\ n = v.mag[2] * Limb + v.mag[1]

\* C13: the transaction count of every accepted row whose field 9 parses as
\* a 64-bit integer is that integer.
C13_CountExact ==
    pc[1] \in {"assembling", "executing"} =>
        LET seen == SubSeq(resp[1].data, 1, idx[1] - 1)
            kept == SelectSeq(seen, Accepted)
        IN  \A i \in 1..Len(kept) :
                LET n == ParseI64(StripCommas(Field(kept[i], 9)))
                IN  (n.some /\ i <= Len(cols[1].transaction_counts)) =>
                        I64IsInt(n.val, cols[1].transaction_counts[i])

RECURSIVE LastNamed(_, _, _)
\* the position of the last part at or before i with one of the names, 0
\* when there is none
LastNamed(parts, names, i) ==
    IF i = 0 THEN 0
    ELSE IF parts[i].name \in names THEN i
    ELSE LastNamed(parts, names, i - 1)

\* the file and the credentials of a request: the last part of that name
FileOf(parts) == LastNamed(parts, {"image", "file"}, Len(parts))

CredentialsOf(parts) == LastNamed(parts, {"credentials"}, Len(parts))

\* the MIME type of a file part: its content type, else what its name says
MimeOf(part) ==
    IF part.content_type.some THEN part.content_type.val
    ELSE MimeGuess(part.file_name.val)

\* every part can be read, and the text fields are text
WellFormed(parts) ==
    \A i \in 1..Len(parts) :
        /\ ~parts[i].broken
        /\ parts[i].name \in {"credentials", "bucket"} => parts[i].utf8

Oversized(parts) ==
    FileOf(parts) > 0 /\ parts[FileOf(parts)].size > MAX_FILE_SIZE

\* the four validations of the claim
Passes(parts) ==
    /\ FileOf(parts) > 0
    /\ parts[FileOf(parts)].size <= MAX_FILE_SIZE
    /\ StartsWith(MimeOf(parts[FileOf(parts)]), ImageSlash)
    /\ CredentialsOf(parts) > 0
    /\ parts[CredentialsOf(parts)].utf8
    /\ parts[CredentialsOf(parts)].creds

\* the upload is called at most once, and only for a request that passes the
\* four validations
UploadOnlyIfValid ==
    /\ up.calls <= 1
    /\ up.calls > 0 => Passes(form)

\* C11: the storage upload is reached only when a file was provided, its
\* size is at most 10 MB, its MIME type starts with image/ and credentials
\* were provided and parse; a readable request that fails a validation is
\* answered without an upload, with 413 when its file is oversized and with
\* 400 otherwise.
C11_ValidatedBeforeUpload ==
    /\ UploadOnlyIfValid
    /\ (up.pc = "done" /\ up.status # StatusTimeout
          /\ WellFormed(form) /\ ~Passes(form)) =>
            /\ up.calls = 0
            /\ up.status = IF Oversized(form) THEN 413 ELSE 400

\* the database loop is over
DbLoopOver == boot.pc \notin {"db_connect", "db_sleep"}

=============================================================================
